---- MODULE Spec2Model ----
(***************************************************************************)
(* streamlit-sqlalchemy: StreamlitAlchemyMixin (mixin.py) over the record  *)
(* types of tests/objects.py.                                              *)
(*                                                                         *)
(* Python values are modelled as strings: None is "None", integers are     *)
(* their decimal text ("0", "1"), identities are "1", "2", ...             *)
(* A keyword-argument value is a record [obj, v]: obj = TRUE for a mapped  *)
(* instance (v is then its id), obj = FALSE for a plain scalar v.          *)
(*                                                                         *)
(* The store is the relational store seen through the session calls the    *)
(* library issues (add, delete, query.update, query.all).  What the mapper *)
(* or the database add on their own (relationship cascades, ON DELETE      *)
(* actions, enforced foreign keys) belongs to their configuration and is   *)
(* not part of this layer; SQLite's defaults are assumed, as in conftest.  *)
(***************************************************************************)
EXTENDS Integers, Sequences, FiniteSets, TLC

VARIABLES connection, store, held, last, running, page

vars == <<connection, store, held, last, running, page>>

None == "None"
Unset == "<unset>"

\* ---------------------------------------------------------------- bounds
MaxItems == 2
MaxOneToMany == 1
MaxSuperItems == 1
MaxStrict == 1
MaxSessions == 2

\* ------------------------------------------------ classes (tests/objects.py)
\* Item, OneToMany and SuperItem are the record types of tests/objects.py.
\* Strict is a record type as an application may declare it: its foreign key
\* to Item is declared nullable=False, with the relationship and backref that
\* every foreign-key type of the repository declares:
\*     id = Column(Integer, primary_key=True)
\*     item_id = Column(Integer, ForeignKey("item.id"), nullable=False)
\*     item = relationship("Item", backref="stricts")
Mixin == "StreamlitAlchemyMixin"
RecordTypes == {"Item", "OneToMany", "SuperItem", "Strict"}
Classes == {Mixin} \cup RecordTypes
Handles == {"c1", "c2"}
\* A mapped class that declares the primary key and nothing else, the one
\* shape of class for which _st_get_first_column_name returns None; only its
\* label is modelled.
IdOnly == "IdOnly"

\* Column names in declaration order (cls.__table__.columns).
Columns(cls) ==
    IF cls \in {"Item", "SuperItem"} THEN <<"id", "name", "count">>
    ELSE IF cls = "OneToMany" THEN <<"id", "first_field", "test_item_id">>
    ELSE IF cls = "Strict" THEN <<"id", "item_id">>
    ELSE <<"id">>

ColumnSet(cls) == {Columns(cls)[i] : i \in 1..Len(Columns(cls))}

\* Semantic type of a column (column.type).
ColumnType(cls, col) ==
    IF col \in {"id", "count", "test_item_id", "item_id"} THEN "Integer" ELSE "String"

\* Target class of column.foreign_keys, None when the set is empty.
ForeignKeyTarget(cls, col) ==
    IF cls = "OneToMany" /\ col = "test_item_id" THEN "Item"
    ELSE IF cls = "Strict" /\ col = "item_id" THEN "Item"
    ELSE None

\* Columns declared nullable=False (the primary key is assigned by the store).
NotNull(cls, col) == cls = "Strict" /\ col = "item_id"

\* Attributes a mapped class has besides its columns (relationship, backref);
\* the declarative constructor accepts exactly hasattr(cls, key).
ClassAttributes(cls) ==
    ColumnSet(cls) \cup
        (IF cls = "Item" THEN {"one_to_many", "stricts"}
         ELSE IF cls = "OneToMany" THEN {"test_item"}
         ELSE IF cls = "SuperItem" THEN {"advanced_object"}
         ELSE {"item"})

\* str.endswith("_id") on the column names of the model.
EndsWithId(name) == name \in {"test_item_id", "item_id"}

MaxRows(cls) ==
    IF cls = "Item" THEN MaxItems
    ELSE IF cls = "OneToMany" THEN MaxOneToMany
    ELSE IF cls = "SuperItem" THEN MaxSuperItems
    ELSE MaxStrict

IdStr(n) == ToString(n)
IdNum(s) ==
    CHOOSE n \in 1..(MaxItems + MaxOneToMany + MaxSuperItems + MaxStrict + 1) : IdStr(n) = s
Ids(cls) == {IdStr(n) : n \in 1..MaxRows(cls)}

\* ------------------------------------------------ class attributes, lookup
\* connection[k] is the value of k.__dict__["_StreamlitAlchemyMixin__connection"]
\* (the name `cls.__connection` is mangled to inside the class body).
MangledConnection == "_StreamlitAlchemyMixin__connection"

ClassDict(k) == IF connection[k] = Unset THEN {} ELSE {MangledConnection}

Mro(cls) == IF cls = Mixin THEN <<Mixin>> ELSE <<cls, Mixin>>

hasattr(cls, name) == \E i \in 1..Len(Mro(cls)) : name \in ClassDict(Mro(cls)[i])

\* getattr(cls, MangledConnection): first class of the MRO that holds it.
GetConnectionAttr(cls) ==
    LET i == CHOOSE j \in 1..Len(Mro(cls)) :
                 /\ MangledConnection \in ClassDict(Mro(cls)[j])
                 /\ \A k \in 1..(j - 1) : MangledConnection \notin ClassDict(Mro(cls)[k])
    IN  connection[Mro(cls)[i]]

\* The string literal is not mangled: the lookup is for "__connection".
_st_is_initialized(cls) == hasattr(cls, "__connection")

\* st_get_connection: the handle, or the exception the attribute access raises.
st_get_connection(cls) ==
    IF hasattr(cls, MangledConnection)
    THEN [raised |-> "none", value |-> GetConnectionAttr(cls)]
    ELSE [raised |-> "AttributeError", value |-> None]

NoConnection(cls) == st_get_connection(cls).raised # "none"

\* ------------------------------------------------ outcome of the last call
\* op: the operation that ran last; raised: the exception that left it ("none"
\* when it returned); log: the levels it logged.
Outcome(op, raised, log) == [op |-> op, raised |-> raised, log |-> log]

EmptyDict == <<>>

\* ------------------------------------------------ values and instances
Scalar(v) == [obj |-> FALSE, v |-> v]
\* A Python value that is not a mapped instance and that the driver cannot
\* bind as a parameter, such as the list in defaults={"first_field": ["x"]}.
Unbindable == "[]"
Instance(id) == [obj |-> TRUE, v |-> id]

\* A mapped instance held by a page: its class, its attribute values (as
\* loaded, or as given to the constructor) and whether it has a database
\* identity (loaded by a query) or is transient (built by the constructor).
\* A page renders the widgets of an instance together (show_single_task of
\* examples/example.py) and their callbacks keep the instance as it was when
\* rendered.  Pages of different users that loaded the same row hold equal
\* instances, so the one slot `held` stands for all of them: the store can
\* move on under it.
NoInstance == [cls |-> None, row |-> <<>>, persisted |-> FALSE]

\* No library function that uses a session has been entered in this rerun, and
\* nothing has been rendered.
NoCall == [op |-> "none", pc |-> "idle", open |-> {}, txn |-> FALSE,
           raised |-> "none", log |-> {}, sessions |-> 0]
EmptyPage == {}

Init ==
    /\ connection = [k \in Classes |-> Unset]
    /\ store = [cls \in RecordTypes |-> {}]
    /\ held = NoInstance
    /\ last = Outcome("start", "none", {})
    /\ running = NoCall
    /\ page = EmptyPage

\* cls(**kwargs): the declarative constructor rejects unknown keywords.
ConstructorRaises(cls, kwargs) == \E k \in DOMAIN kwargs : k \notin ClassAttributes(cls)

\* Attribute values of cls(**kwargs): unset columns read as None.
MakeObj(cls, kwargs) ==
    [col \in ColumnSet(cls) |-> IF col \in DOMAIN kwargs THEN kwargs[col] ELSE Scalar(None)]

\* ------------------------------------------------ the store behind the session
RowIds(rows) == {r.id : r \in rows}

Max(S) == CHOOSE n \in S : \A m \in S : m <= n
Min(S) == CHOOSE n \in S : \A m \in S : n <= m

\* INTEGER PRIMARY KEY of SQLite: one more than the largest id in the table.
NextId(rows) == IF rows = {} THEN IdStr(1) ELSE IdStr(Max({IdNum(i) : i \in RowIds(rows)}) + 1)

\* The id the INSERT of obj would use.
InsertId(rows, obj) == IF obj["id"].v = None THEN NextId(rows) ELSE obj["id"].v

\* A mapped instance bound as a column parameter cannot be stored.
BindError(cls, obj) == \E col \in ColumnSet(cls) : obj[col].obj \/ obj[col].v = Unbindable

\* NOT NULL constraint: a column declared nullable=False is given NULL.
NotNullViolation(cls, obj) == \E col \in ColumnSet(cls) : NotNull(cls, col) /\ obj[col].v = None

\* session.add(obj) followed by the commit that flushes the INSERT.
SessionAddCommit(cls, rows, obj) ==
    IF BindError(cls, obj) THEN [raised |-> "StatementError", rows |-> rows]
    ELSE IF InsertId(rows, obj) \in RowIds(rows) \/ NotNullViolation(cls, obj)
    THEN [raised |-> "IntegrityError", rows |-> rows]
    ELSE [raised |-> "none",
          rows |-> rows \cup {[col \in ColumnSet(cls) |->
                                 IF col = "id" THEN InsertId(rows, obj) ELSE obj[col].v]}]

\* session.query(cls).filter_by(id=id).update(values): the UPDATE is executed
\* by the call itself.  filter_by(id=None) renders "id IS NULL" and matches no row.
QueryUpdate(cls, rows, id, obj) ==
    LET hit == {r \in rows : r.id = id}
        rest == rows \ hit
    IN  IF BindError(cls, obj) THEN [raised |-> "StatementError", rows |-> rows]
        ELSE IF hit # {} /\ (obj["id"].v \in RowIds(rest) \/ NotNullViolation(cls, obj))
        THEN [raised |-> "IntegrityError", rows |-> rows]
        ELSE [raised |-> "none",
              rows |-> rest \cup {[col \in ColumnSet(cls) |-> obj[col].v] : r \in hit}]

\* The foreign-key columns the mapper keeps in step with a relationship to
\* cls: OneToMany.test_item = relationship("Item", backref="one_to_many").
Referrers(cls) ==
    IF cls = "Item" THEN {<<"OneToMany", "test_item_id">>, <<"Strict", "item_id">>} ELSE {}

\* What the flush of the delete does to a row r of class k: the mapper loads
\* the one_to_many collection of the deleted instance and sets the foreign
\* key of each member to NULL (no delete cascade, passive_deletes off).
Nullified(k, r, cls, id) ==
    [col \in DOMAIN r |->
        IF <<k, col>> \in Referrers(cls) /\ r[col] = id THEN None ELSE r[col]]

\* The flush of the delete is rejected by the store: the foreign key the
\* mapper sets to NULL is declared nullable=False.
DeleteRejected(st, cls, id) ==
    \E ref \in Referrers(cls) : NotNull(ref[1], ref[2]) /\ \E r \in st[ref[1]] : r[ref[2]] = id

\* A delete whose flush never reaches the store.
SessionDeleteLost(st, cls, id) == st

\* session.delete(obj) followed by the commit that flushes it, on the whole
\* store st; a DELETE that matches no row only warns (confirm_deleted_rows).
SessionDeleteCommit(st, cls, id) ==
    [k \in DOMAIN st |->
        IF k = cls THEN {r \in st[k] : r.id # id}
        ELSE {Nullified(k, r, cls, id) : r \in st[k]}]

\* session.query(cls).all(): the rows as instances.
Load(cls, r) == [cls |-> cls, row |-> r, persisted |-> TRUE]

\* ------------------------------------------------ _st_create
\* Result of cls._st_create(**kwargs): the exception that leaves the call, the
\* levels logged and the rows of the table afterwards.
_st_create(cls, kwargs) ==
    IF ConstructorRaises(cls, kwargs)
    THEN [raised |-> "TypeError", log |-> {}, rows |-> store[cls]]
    ELSE IF NoConnection(cls)
    THEN [raised |-> "AttributeError", log |-> {}, rows |-> store[cls]]
    ELSE LET done == SessionAddCommit(cls, store[cls], MakeObj(cls, kwargs))
         IN  \* session.add() never raises: the else branch logs "Added", and
             \* the flush runs when session.begin() exits, outside the try.
             [raised |-> done.raised, log |-> {"info"}, rows |-> done.rows]

\* ------------------------------------------------ st_initialize
st_initialize(cls, conn) ==
    /\ IF _st_is_initialized(cls)
       THEN /\ connection' = connection
            /\ last' = Outcome("st_initialize", "none", {"warning"})
       ELSE /\ connection' = [connection EXCEPT ![cls] = conn]
            /\ last' = Outcome("st_initialize", "none", {})
    /\ UNCHANGED <<store, held, running, page>>

StGetConnection(cls) ==
    /\ last' = Outcome("st_get_connection", st_get_connection(cls).raised, {})
    /\ UNCHANGED <<connection, store, held, running, page>>

\* _st_pretty_class_name: " ".join(cls.__tablename__.split("_")).title()
_st_pretty_class_name(cls) == IF cls = "Item" THEN "Item" ELSE "One To Many"

st_pretty_class(cls) ==
    /\ last' = Outcome("st_pretty_class", "none", {})
    /\ UNCHANGED <<connection, store, held, running, page>>

\* ------------------------------------------------ display order and listing
\* Collating order of the values of the model; NULL sorts first in SQLite.
Collation == <<None, "", "0", "1", "2", "3", "A", "B", "F">>

Rank(v) == CHOOSE i \in 1..Len(Collation) : Collation[i] = v

_st_get_first_column_name(cls) ==
    LET others == {i \in 1..Len(Columns(cls)) : Columns(cls)[i] # "id"}
    IN  IF others = {} THEN None ELSE Columns(cls)[Min(others)]

\* hasattr(x, "__st_order_by__"): SuperItem defines it, as the function
\* `lambda self: self.count` in the class body.
HasOrderByOverride(cls) == cls = "SuperItem"

\* _st_order_by(cls) called with the class, as st_list_all does: with the
\* override, getattr(cls, "__st_order_by__") is the plain function and calling
\* it with no argument raises TypeError.
OrderByRaises(cls) == HasOrderByOverride(cls)

\* _st_order_by(cls) without the override: the column to order by.
_st_order_by(cls) ==
    IF _st_get_first_column_name(cls) # None THEN _st_get_first_column_name(cls) ELSE "id"

\* The attribute whose value _st_order_by(obj) returns when called with an
\* instance, as the sort of a choice list does: the override is then a bound
\* method and returns self.count.
SortColumn(cls) == IF HasOrderByOverride(cls) THEN "count" ELSE _st_order_by(cls)

\* r comes before q in ORDER BY col; ties in the table's natural (rowid) order.
Before(r, q, col) ==
    \/ Rank(r[col]) < Rank(q[col])
    \/ Rank(r[col]) = Rank(q[col]) /\ IdNum(r.id) <= IdNum(q.id)

RECURSIVE OrderBy(_, _)
OrderBy(rows, col) ==
    IF rows = {} THEN <<>>
    ELSE LET first == CHOOSE r \in rows : \A q \in rows : Before(r, q, col)
         IN  <<first>> \o OrderBy(rows \ {first}, col)

\* .filter_by(**filter_by)
FilterBy(rows, filter_by) == {r \in rows : \A k \in DOMAIN filter_by : r[k] = filter_by[k]}

\* The query of st_list_all over the rows of the table, in order.
Listing(rows, cls, filter_by) == OrderBy(FilterBy(rows, filter_by), _st_order_by(cls))

\* The rows st_list_all returns (given that the connection is set).
ListAll(cls, filter_by) == Listing(store[cls], cls, filter_by)

SeqSet(s) == {s[i] : i \in 1..Len(s)}

\* The exception that leaves st_list_all: the connection is looked up first,
\* then the order_by expression is built.
ListAllError(cls) ==
    IF NoConnection(cls) THEN "AttributeError"
    ELSE IF OrderByRaises(cls) THEN "TypeError"
    ELSE "none"

st_list_all(cls, filter_by) ==
    /\ last' = Outcome("st_list_all", ListAllError(cls), {})
    /\ UNCHANGED <<connection, store, held, running, page>>

\* ------------------------------------------------ widgets
\* _st_get_input_function: the kind of widget of a column.
_st_get_input_function(cls, col) ==
    IF ForeignKeyTarget(cls, col) # None THEN "selectbox"
    ELSE IF ColumnType(cls, col) = "Integer" THEN "number_input"
    ELSE "text_input"

\* The choice list of the foreign-key selectbox over the store st:
\* session.query(class_).all().
ChoicesIn(st, cls, col) == st[ForeignKeyTarget(cls, col)]

Choices(cls, col) == ChoicesIn(store, cls, col)

\* choices.sort(key=_st_order_by): list.sort compares the keys with <, and
\* None is comparable with nothing, itself included; a list of one is not compared.
SortRaises(rows, cls) ==
    Cardinality(rows) >= 2 /\ \E r \in rows : r[SortColumn(cls)] = None

\* The sorted choice list; the sort is stable, ties stay in the order of the query.
SortedChoices(st, cls, col) ==
    OrderBy(ChoicesIn(st, cls, col), SortColumn(ForeignKeyTarget(cls, col)))

\* The exception that leaves the building of the widget of a column: a
\* foreign-key column looks up the connection, queries the target and sorts.
InputFunctionError(cls, col) ==
    IF ForeignKeyTarget(cls, col) = None THEN "none"
    ELSE IF NoConnection(cls) THEN "AttributeError"
    ELSE IF SortRaises(Choices(cls, col), ForeignKeyTarget(cls, col)) THEN "TypeError"
    ELSE "none"

InputFunctionRaises(cls, col) == InputFunctionError(cls, col) # "none"

\* What the widget shows, and returns when left untouched, for `value`.
WidgetValue(cls, col, value) ==
    IF _st_get_input_function(cls, col) = "selectbox" THEN Scalar(None)
    ELSE IF _st_get_input_function(cls, col) = "number_input"
    THEN Scalar(IF value # None THEN value ELSE "0")
    ELSE Scalar(IF value # None THEN value ELSE "")

\* The values the user can make the widget return, typing from texts and
\* numbers and, when picks, picking in the selectbox.
WidgetChoices(cls, col, in) ==
    IF _st_get_input_function(cls, col) = "selectbox"
    THEN {Scalar(None)} \cup
         (IF in.picks THEN {Instance(r.id) : r \in Choices(cls, col)} ELSE {})
    ELSE IF _st_get_input_function(cls, col) = "number_input"
    THEN {Scalar(n) : n \in in.numbers}
    ELSE {Scalar(t) : t \in in.texts}

\* ------------------------------------------------ st_create_form
\* A create form that also renders a widget for the primary key.
WidgetForEveryColumn(cls, defaults) == {col \in ColumnSet(cls) : col \notin DOMAIN defaults}

\* Columns that get a widget in the create form.
CreateWidgetColumns(cls, defaults) ==
    {col \in ColumnSet(cls) : col # "id" /\ col \notin DOMAIN defaults}

\* kwargs after the column loop and kwargs.update(defaults).
CreateKwargs(cls, defaults, input) ==
    [k \in CreateWidgetColumns(cls, defaults) \cup DOMAIN defaults |->
        IF k \in DOMAIN defaults THEN defaults[k] ELSE input[k]]

\* any(default not in kwargs for default in defaults), before the update.
UnknownDefaults(cls, defaults) ==
    \E d \in DOMAIN defaults : d \notin (ColumnSet(cls) \ {"id"})

CreateFormLog(cls, defaults) == IF UnknownDefaults(cls, defaults) THEN {"warning"} ELSE {}

CreateFormRenderRaises(cls, defaults) ==
    \E col \in CreateWidgetColumns(cls, defaults) : InputFunctionRaises(cls, col)

\* The exception of the first widget that cannot be built.
CreateFormRenderError(cls, defaults) ==
    LET failing == {i \in 1..Len(Columns(cls)) :
                       /\ Columns(cls)[i] \in CreateWidgetColumns(cls, defaults)
                       /\ InputFunctionRaises(cls, Columns(cls)[i])}
    IN  IF failing = {} THEN "none" ELSE InputFunctionError(cls, Columns(cls)[Min(failing)])

\* kwargs[field] = kwargs[field].id for every value that is a mapped instance.
CoerceCreate(kwargs) ==
    [k \in DOMAIN kwargs |-> IF kwargs[k].obj THEN Scalar(kwargs[k].v) ELSE kwargs[k]]

StCreateFormRender(cls, defaults) ==
    /\ last' = IF CreateFormRenderRaises(cls, defaults)
               THEN Outcome("st_create_form", CreateFormRenderError(cls, defaults), {})
               ELSE Outcome("st_create_form", "none", CreateFormLog(cls, defaults))
    /\ UNCHANGED <<connection, store, held, running, page>>

\* The rerun in which the submit button was clicked, with the widget values `input`.
StCreateFormSubmit(cls, defaults, input) ==
    LET done == _st_create(cls, CoerceCreate(CreateKwargs(cls, defaults, input)))
    IN  /\ ~CreateFormRenderRaises(cls, defaults)
        /\ \A r \in done.rows : r.id \in Ids(cls)
        /\ store' = [store EXCEPT ![cls] = done.rows]
        /\ last' = Outcome("st_create_form.submit", done.raised,
                           CreateFormLog(cls, defaults) \cup done.log)
        /\ UNCHANGED <<connection, held, running, page>>

\* The widgets inside the form: one call of the input function per column of
\* the loop that is neither id nor named in defaults.  The selectbox of a
\* foreign key is built with index=None over the sorted rows of the target.
CreateFormWidgets(cls, defaults) ==
    {[column |-> col,
      function |-> _st_get_input_function(cls, col),
      options |-> IF ForeignKeyTarget(cls, col) # None
                  THEN SortedChoices(store, cls, col) ELSE <<>>,
      index |-> None] : col \in CreateWidgetColumns(cls, defaults)}

\* The page after st_create_form returned: the form, its widgets and its
\* submit button; nothing when building a widget raised.
RenderCreateForm(cls, defaults) ==
    /\ last' = IF CreateFormRenderRaises(cls, defaults)
               THEN Outcome("st_create_form", CreateFormRenderError(cls, defaults), {})
               ELSE Outcome("st_create_form", "none", CreateFormLog(cls, defaults))
    /\ page' = IF CreateFormRenderRaises(cls, defaults) THEN EmptyPage
               ELSE {[kind |-> "create_form", cls |-> cls, defaults |-> DOMAIN defaults,
                      widgets |-> CreateFormWidgets(cls, defaults),
                      buttons |-> {"Create " \o cls}]}
    /\ UNCHANGED <<connection, store, held, running>>

\* ------------------------------------------------ instances on the page
\* The declarative constructor called by application code (mixin __init__).
Construct(cls, kwargs) ==
    /\ IF ConstructorRaises(cls, kwargs)
       THEN /\ held' = held
            /\ last' = Outcome("__init__", "TypeError", {})
       ELSE /\ held' = [cls |-> cls, persisted |-> FALSE,
                        row |-> [col \in ColumnSet(cls) |-> MakeObj(cls, kwargs)[col].v]]
            /\ last' = Outcome("__init__", "none", {})
    /\ UNCHANGED <<connection, store, running, page>>

HasHeld == held.cls # None

\* The instances application code can pass as `self`: one it just queried, or
\* the one the page already holds.
Selves(types) ==
    UNION {{Load(cls, r) : r \in store[cls]} : cls \in types} \cup
    (IF HasHeld THEN {held} ELSE {})

\* st_update_select_form / st_delete_select_form up to the selectbox: the
\* listing is queried and the user picks one entry, or none (index=None).
SelectFormPick(op, cls, filter_by, pick) ==
    IF ListAllError(cls) # "none"
    THEN /\ pick = None
         /\ held' = held
         /\ last' = Outcome(op, ListAllError(cls), {})
    ELSE /\ pick \in {None} \cup RowIds(SeqSet(ListAll(cls, filter_by)))
         /\ held' = IF pick = None THEN NoInstance
                    ELSE Load(cls, CHOOSE r \in store[cls] : r.id = pick)
         /\ last' = Outcome(op, "none", {})

SelectForm(op, cls, filter_by, pick) ==
    /\ SelectFormPick(op, cls, filter_by, pick)
    /\ UNCHANGED <<connection, store, running, page>>

st_update_select_form(cls, filter_by, pick) ==
    SelectForm("st_update_select_form", cls, filter_by, pick)

st_delete_select_form(cls, filter_by, pick) ==
    SelectForm("st_delete_select_form", cls, filter_by, pick)

\* st_crud_tabs: the create form, the update select form and the delete select
\* form are rendered one after the other, each in its tab; an exception of one
\* ends the render.  The user picks in a selectbox of the tabs, or in none.
st_crud_tabs(cls, defaults, filter_by, pick) ==
    /\ IF CreateFormRenderRaises(cls, defaults)
       THEN /\ pick = None
            /\ held' = held
            /\ last' = Outcome("st_crud_tabs", CreateFormRenderError(cls, defaults), {})
       ELSE IF ListAllError(cls) # "none"
       THEN /\ pick = None
            /\ held' = held
            /\ last' = Outcome("st_crud_tabs", ListAllError(cls), CreateFormLog(cls, defaults))
       ELSE /\ pick \in {None} \cup RowIds(SeqSet(ListAll(cls, filter_by)))
            /\ held' = IF pick = None THEN NoInstance
                       ELSE Load(cls, CHOOSE r \in store[cls] : r.id = pick)
            /\ last' = Outcome("st_crud_tabs", "none", CreateFormLog(cls, defaults))
    /\ UNCHANGED <<connection, store, running, page>>

\* ------------------------------------------------ persistence of an instance
\* Attribute values of an instance as keyword/column values.
AsObj(self) == [col \in ColumnSet(self.cls) |-> Scalar(self.row[col])]

\* An update that would write only the columns whose draft value differs from
\* the value the instance was loaded with, leaving the other columns of the
\* row as another submission committed them.
_st_update_changed_only(cls, kwargs) ==
    LET obj == MakeObj(cls, kwargs)
        hit == {r \in store[cls] : r.id = obj["id"].v}
    IN  [raised |-> "none", log |-> {"info"},
         rows |-> (store[cls] \ hit) \cup
                  {[col \in ColumnSet(cls) |->
                       IF HasHeld /\ held.row[col] = obj[col].v THEN r[col] ELSE obj[col].v] : r \in hit}]

\* Result of cls._st_update(**kwargs).
_st_update(cls, kwargs) ==
    IF ConstructorRaises(cls, kwargs)
    THEN [raised |-> "TypeError", log |-> {}, rows |-> store[cls]]
    ELSE IF NoConnection(cls)
    THEN [raised |-> "AttributeError", log |-> {}, rows |-> store[cls]]
    ELSE LET obj == MakeObj(cls, kwargs)
             done == QueryUpdate(cls, store[cls], obj["id"].v, obj)
         IN  IF done.raised = "IntegrityError"
             THEN [raised |-> "none", log |-> {"error"}, rows |-> store[cls]]
             ELSE IF done.raised # "none"
             THEN [raised |-> done.raised, log |-> {}, rows |-> store[cls]]
             ELSE [raised |-> "none", log |-> {"info"}, rows |-> done.rows]

\* Result of self._st_session_update().
_st_session_update(self) ==
    IF NoConnection(self.cls)
    THEN [raised |-> "AttributeError", log |-> {}, rows |-> store[self.cls]]
    ELSE LET done == QueryUpdate(self.cls, store[self.cls], self.row["id"], AsObj(self))
         IN  IF done.raised = "IntegrityError"
             THEN [raised |-> "none", log |-> {"error"}, rows |-> store[self.cls]]
             ELSE [raised |-> "none", log |-> {"info"}, rows |-> done.rows]

\* Result of self._st_session_delete(); session.delete() refuses an instance
\* that was never persisted with InvalidRequestError, which is not caught.
_st_session_delete(self) ==
    IF NoConnection(self.cls)
    THEN [raised |-> "AttributeError", log |-> {}, store |-> store]
    ELSE IF ~self.persisted
    THEN [raised |-> "InvalidRequestError", log |-> {}, store |-> store]
    ELSE IF DeleteRejected(store, self.cls, self.row["id"])
    THEN \* session.delete() only marks the instance: the else branch logs
         \* "Deleted", and the flush that the store rejects runs when
         \* session.begin() exits, outside the try; the transaction is rolled back.
         [raised |-> "IntegrityError", log |-> {"info"}, store |-> store]
    ELSE [raised |-> "none", log |-> {"info"},
          store |-> SessionDeleteCommit(store, self.cls, self.row["id"])]

\* ------------------------------------------------ st_update_form
UpdateWidgetColumns(cls, except_columns) ==
    {col \in ColumnSet(cls) : col # "id" /\ ~EndsWithId(col) /\ col \notin except_columns}

UpdateFormRenderRaises(cls, except_columns) ==
    \E col \in UpdateWidgetColumns(cls, except_columns) : InputFunctionRaises(cls, col)

\* What each widget of the update form shows for the instance.
Prefill(self, except_columns) ==
    [col \in UpdateWidgetColumns(self.cls, except_columns) |->
        WidgetValue(self.cls, col, self.row[col])]

\* kwargs before submission: every column of the instance, the widget columns
\* replaced by what their widget returns (the user's edit, else the pre-fill).
UpdateKwargs(self, except_columns, edits) ==
    [col \in ColumnSet(self.cls) |->
        IF col \in UpdateWidgetColumns(self.cls, except_columns)
        THEN IF col \in DOMAIN edits THEN edits[col]
             ELSE Prefill(self, except_columns)[col]
        ELSE Scalar(self.row[col])]

\* kwargs[field] = kwargs[field].id for every field named *_id: a plain value
\* has no attribute id.
CoerceUpdateRaises(kwargs) == \E k \in DOMAIN kwargs : EndsWithId(k) /\ ~kwargs[k].obj

CoerceUpdate(kwargs) ==
    [k \in DOMAIN kwargs |-> IF EndsWithId(k) THEN Scalar(kwargs[k].v) ELSE kwargs[k]]

\* Rendering the form for `self`, which the page then holds.
StUpdateFormRender(self, except_columns) ==
    /\ held' = self
    /\ last' = Outcome("st_update_form",
                       IF UpdateFormRenderRaises(self.cls, except_columns)
                       THEN "AttributeError" ELSE "none", {})
    /\ UNCHANGED <<connection, store, running, page>>

\* The rerun in which the form of the held instance is submitted.
StUpdateFormSubmit(except_columns, edits) ==
    LET kwargs == UpdateKwargs(held, except_columns, edits)
        done == _st_update(held.cls, CoerceUpdate(kwargs))
    IN  /\ HasHeld
        /\ ~UpdateFormRenderRaises(held.cls, except_columns)
        /\ DOMAIN edits \subseteq UpdateWidgetColumns(held.cls, except_columns)
        /\ IF CoerceUpdateRaises(kwargs)
           THEN /\ store' = store
                /\ last' = Outcome("st_update_form.submit", "AttributeError", {})
           ELSE /\ store' = [store EXCEPT ![held.cls] = done.rows]
                /\ last' = Outcome("st_update_form.submit", done.raised, done.log)
        /\ UNCHANGED <<connection, held, running, page>>

\* ------------------------------------------------ st_edit_button
StEditButton(self, values) ==
    /\ held' = self
    /\ last' = Outcome("st_edit_button", "none", {})
    /\ UNCHANGED <<connection, store, running, page>>

\* setattr(self, k, v) for every assignment; a name that is no column becomes
\* a plain attribute of the instance.
SetAttrs(self, values) ==
    [self EXCEPT !.row = [col \in ColumnSet(self.cls) |->
                             IF col \in DOMAIN values THEN values[col] ELSE self.row[col]]]

\* on_click: _update(**values) on the instance the button was rendered for.
StEditButtonClick(values) ==
    LET done == _st_session_update(SetAttrs(held, values))
    IN  /\ HasHeld
        /\ held' = SetAttrs(held, values)
        /\ store' = [store EXCEPT ![held.cls] = done.rows]
        /\ last' = Outcome("st_edit_button.click", done.raised, done.log)
        /\ UNCHANGED <<connection, running, page>>

\* ------------------------------------------------ st_delete_button, delete form
\* A button that would call the handler while rendering, on_click being given
\* the result of self._st_session_delete() instead of the method.
StDeleteButtonEager(self) ==
    /\ held' = self
    /\ store' = _st_session_delete(self).store
    /\ last' = Outcome("st_delete_button", "none", {})
    /\ UNCHANGED <<connection, running, page>>

StDeleteButton(self) ==
    /\ held' = self
    /\ last' = Outcome("st_delete_button", "none", {})
    /\ UNCHANGED <<connection, store, running, page>>

DeleteHeld(op) ==
    LET done == _st_session_delete(held)
    IN  /\ HasHeld
        /\ store' = done.store
        /\ last' = Outcome(op, done.raised, done.log)
        /\ UNCHANGED <<connection, held, running, page>>

\* on_click of the delete button of the held instance.
StDeleteButtonClick == DeleteHeld("st_delete_button.click")

\* The rerun in which the delete form of the selected instance is submitted.
StDeleteSelectFormSubmit == held.persisted /\ DeleteHeld("st_delete_select_form.submit")

\* ------------------------------------------------ the page of a select form
\* A select form that renders its form whether or not an entry is selected.
SelectFormPageUnguarded(op, cls, filter_by, except_columns, pick) ==
    {[kind |-> "selectbox", op |-> op, cls |-> cls,
      options |-> ListAll(cls, filter_by), selected |-> pick],
     [kind |-> "form", op |-> op, cls |-> cls, id |-> pick,
      widgets |-> IF op = "st_update_select_form"
                  THEN UpdateWidgetColumns(cls, except_columns) ELSE {},
      buttons |-> {"submit"}]}

\* What st_update_select_form / st_delete_select_form put on the page: the
\* selectbox over the listing and, under `if selected_obj`, the update form of
\* the selected instance (its widgets and its submit button), or the delete
\* form (its submit button).
SelectFormPage(op, cls, filter_by, except_columns, pick) ==
    {[kind |-> "selectbox", op |-> op, cls |-> cls,
      options |-> ListAll(cls, filter_by), selected |-> pick]}
    \cup (IF pick = None THEN {}
          ELSE {[kind |-> "form", op |-> op, cls |-> cls, id |-> pick,
                 widgets |-> IF op = "st_update_select_form"
                             THEN UpdateWidgetColumns(cls, except_columns) ELSE {},
                 buttons |-> {"submit"}]})

RenderSelectForm(op, cls, filter_by, except_columns, pick) ==
    /\ SelectFormPick(op, cls, filter_by, pick)
    /\ page' = IF ListAllError(cls) # "none" THEN EmptyPage
               ELSE SelectFormPage(op, cls, filter_by, except_columns, pick)
    /\ UNCHANGED <<connection, store, running>>

\* form_submit_button returns True in the rerun after a click on the button,
\* which the page has to show: the update form of the held instance with the
\* widgets of except_columns, or its delete form.
SubmitShownUpdateForm(except_columns, edits) ==
    /\ \E f \in page : /\ f.kind = "form" /\ f.op = "st_update_select_form"
                        /\ f.cls = held.cls /\ f.id = held.row["id"]
                        /\ f.widgets = UpdateWidgetColumns(held.cls, except_columns)
                        /\ f.buttons # {}
    /\ StUpdateFormSubmit(except_columns, edits)

SubmitShownDeleteForm ==
    /\ \E f \in page : /\ f.kind = "form" /\ f.op = "st_delete_select_form"
                        /\ f.cls = held.cls /\ f.id = held.row["id"]
                        /\ f.buttons # {}
    /\ StDeleteSelectFormSubmit

\* ------------------------------------------------ inputs
\* An input profile `in` fixes what the application and its users feed the
\* library: the record types on the page, the texts and numbers typed, whether
\* users pick in foreign-key selectboxes, and the argument dictionaries.
Plain ==
    [types |-> {"Item", "OneToMany"}, texts |-> {"A"}, numbers |-> {"0"}, picks |-> FALSE,
     itemDefaults |-> {EmptyDict}, otherDefaults |-> {EmptyDict},
     itemFilters |-> {EmptyDict}, itemExcept |-> {{}},
     itemEdits |-> {[count |-> "0"]}, otherEdits |-> {[first_field |-> "F"]}]

Rich ==
    [types |-> {"Item"}, texts |-> {"A", "B"}, numbers |-> {"0"}, picks |-> FALSE,
     itemDefaults |-> {EmptyDict, [count |-> Scalar(None)], [id |-> Scalar("1")],
                       [bogus |-> Scalar("x")]},
     otherDefaults |-> {EmptyDict},
     itemFilters |-> {EmptyDict, [name |-> "A"]}, itemExcept |-> {{}, {"count"}},
     itemEdits |-> {[count |-> "0"], [name |-> "B"]},
     otherEdits |-> {[first_field |-> "F"]}]

Related ==
    [types |-> {"Item", "OneToMany"}, texts |-> {"A"}, numbers |-> {"0"}, picks |-> TRUE,
     itemDefaults |-> {EmptyDict},
     otherDefaults |-> {EmptyDict, [bogus |-> Scalar("x")], [first_field |-> Scalar(Unbindable)]},
     itemFilters |-> {EmptyDict}, itemExcept |-> {{}},
     itemEdits |-> {[count |-> "0"]}, otherEdits |-> {[test_item_id |-> "1"]}]

\* Item and OneToMany, the Items with names inserted in every order, some of
\* them null (a default of None for the name).
Ordered ==
    [types |-> {"Item", "OneToMany"}, texts |-> {"A", "B"},
     numbers |-> {"0"}, picks |-> FALSE,
     itemDefaults |-> {EmptyDict, [name |-> Scalar(None)]},
     otherDefaults |-> {EmptyDict},
     itemFilters |-> {EmptyDict}, itemExcept |-> {{}},
     itemEdits |-> {[name |-> "B"]}, otherEdits |-> {[first_field |-> "F"]}]

\* Item and SuperItem (which overrides the sort key), listed with and
\* without a filter.
Listed ==
    [types |-> {"Item", "SuperItem"}, texts |-> {"A", "B"},
     numbers |-> {"0"}, picks |-> FALSE,
     itemDefaults |-> {EmptyDict, [name |-> Scalar(None)]},
     otherDefaults |-> {EmptyDict},
     itemFilters |-> {EmptyDict, [name |-> "A"]}, itemExcept |-> {{}},
     itemEdits |-> {[name |-> "B"]}, otherEdits |-> {[first_field |-> "F"]}]

\* Item and Strict, whose foreign key to Item is not nullable; users pick.
Strictly ==
    [types |-> {"Item", "Strict"}, texts |-> {"A"}, numbers |-> {"0"}, picks |-> TRUE,
     itemDefaults |-> {EmptyDict}, otherDefaults |-> {EmptyDict},
     itemFilters |-> {EmptyDict}, itemExcept |-> {{}},
     itemEdits |-> {[count |-> "0"]}, otherEdits |-> {[first_field |-> "F"]}]

\* Caller-supplied defaults of the create form; with picks, also a related
\* instance passed as the default of the foreign key.
\* Items with two names, and edit buttons that assign the name or the id.
Identified ==
    [types |-> {"Item"}, texts |-> {"A", "B"}, numbers |-> {"0"}, picks |-> FALSE,
     itemDefaults |-> {EmptyDict}, otherDefaults |-> {EmptyDict},
     itemFilters |-> {EmptyDict}, itemExcept |-> {{}},
     itemEdits |-> {[name |-> "B"], [id |-> "2"]}, otherEdits |-> {[first_field |-> "F"]}]

\* Every record type, with create forms of Item that pre-fill a column.
Formed ==
    [types |-> RecordTypes, texts |-> {"A", "B"}, numbers |-> {"0"}, picks |-> TRUE,
     itemDefaults |-> {EmptyDict, [count |-> Scalar(None)], [name |-> Scalar("A")]},
     otherDefaults |-> {EmptyDict},
     itemFilters |-> {EmptyDict}, itemExcept |-> {{}},
     itemEdits |-> {[count |-> "0"]}, otherEdits |-> {[first_field |-> "F"]}]

DefaultsOf(cls, in) ==
    IF cls = "Item" THEN in.itemDefaults
    ELSE IF cls = "OneToMany"
    THEN in.otherDefaults \cup
         (IF in.picks THEN {[test_item_id |-> Instance(r.id)] : r \in store["Item"]} ELSE {})
    ELSE {EmptyDict}

ConstructKwargsOf(cls) ==
    IF cls \in {"Item", "SuperItem"} THEN {[name |-> Scalar("A")]}
    ELSE IF cls = "OneToMany" THEN {[first_field |-> Scalar("F")]}
    ELSE {EmptyDict}

FiltersOf(cls, in) == IF cls = "Item" THEN in.itemFilters ELSE {EmptyDict}

EditValuesOf(cls, in) ==
    IF cls = "Item" THEN in.itemEdits
    ELSE IF cls = "OneToMany" THEN in.otherEdits
    ELSE IF cls = "SuperItem" THEN {[count |-> "0"]}
    ELSE {[item_id |-> "1"]}

ExceptColumnsOf(cls, in) == IF cls = "Item" THEN in.itemExcept ELSE {{}}

\* Functions from cols to the values the widgets of cols can return.
WidgetInputs(cls, cols, in) ==
    {f \in [cols -> UNION {WidgetChoices(cls, c, in) : c \in cols}] :
        \A c \in cols : f[c] \in WidgetChoices(cls, c, in)}

\* The edits of a user who changes the widgets of some of cols.
Edits(cls, cols, in) == UNION {WidgetInputs(cls, sub, in) : sub \in SUBSET cols}

\* Operations that are invoked and render, without a click or a submission.
Invocations(in) ==
    \/ \E cls \in in.types : StGetConnection(cls)
    \/ \E cls \in in.types : st_pretty_class(cls)
    \/ \E cls \in in.types : \E f \in FiltersOf(cls, in) : st_list_all(cls, f)
    \/ \E cls \in in.types : \E d \in DefaultsOf(cls, in) : StCreateFormRender(cls, d)
    \/ \E cls \in in.types : \E kwargs \in ConstructKwargsOf(cls) : Construct(cls, kwargs)
    \/ \E self \in Selves(in.types) : \E e \in ExceptColumnsOf(self.cls, in) :
          StUpdateFormRender(self, e)
    \/ \E self \in Selves(in.types) : \E v \in EditValuesOf(self.cls, in) :
          StEditButton(self, v)
    \/ \E self \in Selves(in.types) : StDeleteButton(self)

\* The select forms: the page comes to hold the instance picked.
Selections(in) ==
    \/ \E cls \in in.types : \E f \in FiltersOf(cls, in) : \E pick \in {None} \cup Ids(cls) :
          st_update_select_form(cls, f, pick)
    \/ \E cls \in in.types : \E f \in FiltersOf(cls, in) : \E pick \in {None} \cup Ids(cls) :
          st_delete_select_form(cls, f, pick)

\* Submissions and clicks.
Submissions(in) ==
    \/ \E cls \in in.types : \E d \in DefaultsOf(cls, in) :
          \E input \in WidgetInputs(cls, CreateWidgetColumns(cls, d), in) :
              StCreateFormSubmit(cls, d, input)
    \/ \E e \in ExceptColumnsOf(held.cls, in) :
          \E edits \in Edits(held.cls, UpdateWidgetColumns(held.cls, e), in) :
              StUpdateFormSubmit(e, edits)
    \/ \E v \in EditValuesOf(held.cls, in) : StEditButtonClick(v)
    \/ StDeleteButtonClick
    \/ StDeleteSelectFormSubmit

\* ------------------------------------------------ widgets by semantic type
\* AdvancedObject of tests/objects.py has a column of every semantic type that
\* _st_get_input_function tells apart, and a foreign key to SuperItem.
AdvancedColumns ==
    <<"id", "name", "another_string", "yet_another_string", "text", "count", "my_float",
      "my_bool", "my_other_bool", "due_datetime", "creating_date", "closing_time",
      "super_item_id">>

AdvancedColumnType(col) ==
    IF col \in {"id", "count", "super_item_id"} THEN "Integer"
    ELSE IF col = "text" THEN "Text"
    ELSE IF col = "my_float" THEN "Float"
    ELSE IF col \in {"my_bool", "my_other_bool"} THEN "Boolean"
    ELSE IF col = "due_datetime" THEN "DateTime"
    ELSE IF col = "creating_date" THEN "Date"
    ELSE IF col = "closing_time" THEN "Time"
    ELSE "String"

\* column.foreign_keys is not empty.
AdvancedForeignKey(col) == col = "super_item_id"

\* Values of __st_input_meta__: absent from the class, the dictionary of
\* AdvancedObject, and a dictionary that an application gives an entry for
\* the foreign key.
NoInputMeta == [defined |-> FALSE, dict |-> EmptyDict]
AdvancedInputMeta ==
    [defined |-> TRUE,
     dict |-> [another_string |-> "st.text_area", my_other_bool |-> "<lambda checkbox>"]]
InputMetas ==
    {NoInputMeta, AdvancedInputMeta,
     [defined |-> TRUE, dict |-> [super_item_id |-> "<lambda radio>"]]}

\* cls.__st_input_meta__.get(column.name) when the class has the attribute.
_st_get_default_input_function(meta, col) ==
    IF ~meta.defined THEN None
    ELSE IF col \in DOMAIN meta.dict THEN meta.dict[col]
    ELSE None

\* The chain of isinstance tests on column.type.
InputFunctionByType(type) ==
    IF type = "Integer" THEN "number_input"
    ELSE IF type = "Float" THEN "float_input"
    ELSE IF type = "Boolean" THEN "boolean_select"
    ELSE IF type = "DateTime" THEN "datetime_input"
    ELSE IF type = "Date" THEN "date_input"
    ELSE IF type = "Time" THEN "time_input"
    ELSE IF type = "Text" THEN "text_area"
    ELSE "text_input"

\* A dispatch that would look at the foreign keys of the column before the
\* entries of __st_input_meta__.
InputFunctionForeignKeyFirst(meta, col) ==
    IF AdvancedForeignKey(col) THEN "selectbox"
    ELSE IF _st_get_default_input_function(meta, col) # None
    THEN _st_get_default_input_function(meta, col)
    ELSE InputFunctionByType(AdvancedColumnType(col))

\* _st_get_input_function(column) for a class whose __st_input_meta__ is meta.
InputFunctionFor(meta, col) ==
    IF _st_get_default_input_function(meta, col) # None
    THEN _st_get_default_input_function(meta, col)
    ELSE IF AdvancedForeignKey(col) THEN "selectbox"
    ELSE InputFunctionByType(AdvancedColumnType(col))

\* Values of columns and widgets are tuples of strings: <<>> is None, a
\* text, number or boolean is <<its literal>>, a date <<day>>, a time of day
\* <<hour, minute, second>>, a datetime <<day, hour, minute, second>>.
IsNone == <<>>
Days == {"01", "02"}
Hours == {"00", "13"}
Minutes == {"00", "30"}
Seconds == {"00", "59"}
Dates == {<<d>> : d \in Days}
Times == Hours \X Minutes \X Seconds
DateTimes == Days \X Hours \X Minutes \X Seconds

\* value.replace(minute=0, second=0, microsecond=0)
OnTheHour(t) == <<t[1], "00", "00">>

\* datetime.combine(date, time), and its two parts.
Combine(date, t) == <<date[1], t[1], t[2], t[3]>>
DateOf(dt) == <<dt[1]>>
TimeOf(dt) == <<dt[2], dt[3], dt[4]>>

\* The values a column of the type can hold, None included.
ValuesOfType(type) ==
    {IsNone} \cup
        (IF type = "DateTime" THEN DateTimes
         ELSE IF type = "Date" THEN Dates
         ELSE IF type = "Time" THEN Times
         ELSE IF type = "Boolean" THEN {<<"True">>, <<"False">>}
         ELSE IF type = "Integer" THEN {<<"0">>, <<"7">>}
         ELSE IF type = "Float" THEN {<<"0.0">>, <<"7.5">>}
         ELSE {<<"">>, <<"A">>})

\* What the widget function presents when called with `value` (None when the
\* create form calls it with the label alone); `now` is the clock when
\* _st_get_input_function built the function, no column of AdvancedObject
\* having a default.  A function taken from __st_input_meta__ is opaque.
Presented(function, value, now) ==
    IF function = "number_input" THEN (IF value # IsNone THEN value ELSE <<"0">>)
    ELSE IF function = "float_input" THEN (IF value # IsNone THEN value ELSE <<"0.0">>)
    ELSE IF function = "boolean_select" THEN value
    ELSE IF function = "datetime_input"
    THEN LET v == IF value # IsNone THEN value ELSE now
         IN  Combine(DateOf(v), OnTheHour(TimeOf(v)))
    ELSE IF function = "date_input" THEN (IF value # IsNone THEN value ELSE DateOf(now))
    ELSE IF function = "time_input"
    THEN OnTheHour(IF value # IsNone THEN value ELSE TimeOf(now))
    ELSE IF function \in {"text_area", "text_input"} THEN (IF value # IsNone THEN value ELSE <<"">>)
    ELSE IF function = "selectbox" THEN IsNone
    ELSE <<"<opaque>">>

\* One widget on the page.
Widget(meta, col, value, now) ==
    [column |-> col, meta |-> meta, function |-> InputFunctionFor(meta, col),
     value |-> value, now |-> now,
     presented |-> Presented(InputFunctionFor(meta, col), value, now)]

\* The clock matters to the temporal widgets only.
Clocks(col) ==
    IF AdvancedColumnType(col) \in {"DateTime", "Date", "Time"} THEN DateTimes
    ELSE {<<"01", "00", "00", "00">>}

\* st_create_form: input_function(label) for a column other than id.
RenderCreateWidget(meta, col, now) ==
    /\ col # "id"
    /\ page' = {Widget(meta, col, IsNone, now)}
    /\ UNCHANGED <<connection, store, held, last, running>>

\* st_update_form: input_function(label, value=getattr(self, column.name))
\* for a column other than id and the columns named *_id.
RenderUpdateWidget(meta, col, value, now) ==
    /\ col \notin {"id", "super_item_id"}
    /\ page' = {Widget(meta, col, value, now)}
    /\ UNCHANGED <<connection, store, held, last, running>>

\* ------------------------------------------------ display labels
LabelTypes == {"Item", "SuperItem", "OneToMany", IdOnly}

\* hasattr(obj, "__st_repr__"): the mixin only annotates the name, so the
\* attribute exists where a class assigns it.
HasStRepr(cls) == cls = "SuperItem"

\* A Python value as far as a label shows it: its type and its text.
PyValue(cls, col, v) ==
    IF v = None THEN [type |-> "NoneType", text |-> "None"]
    ELSE [type |-> IF ColumnType(cls, col) = "Integer" THEN "int" ELSE "str", text |-> v]

\* str(x), and the f-string conversion of x.
str(x) == [type |-> "str", text |-> x.text]

\* repr(obj) / str(obj) of a mapped instance without a __repr__ of its own.
ObjectRepr(cls) == [type |-> "str", text |-> "<" \o cls \o " object>"]

\* SuperItem.__st_repr__: f"{self.name} ({self.count})"
__st_repr__(cls, row) ==
    [type |-> "str",
     text |-> str(PyValue(cls, "name", row.name)).text \o " (" \o
              str(PyValue(cls, "count", row.count)).text \o ")"]

\* A label that takes the first column although the class has an override.
FirstColumnRepr(cls, row) ==
    LET first == _st_get_first_column_name(cls)
    IN  IF first # None THEN PyValue(cls, first, row[first]) ELSE ObjectRepr(cls)

_st_repr(cls, row) ==
    IF HasStRepr(cls) THEN __st_repr__(cls, row)
    ELSE LET first == _st_get_first_column_name(cls)
         IN  IF first # None THEN PyValue(cls, first, row[first])
             ELSE ObjectRepr(cls)

_obj_repr(cls, row) ==
    IF HasStRepr(cls) THEN __st_repr__(cls, row)
    ELSE LET first == _st_get_first_column_name(cls)
         IN  IF first # None THEN str(PyValue(cls, first, row[first]))
             ELSE ObjectRepr(cls)

\* Well-formed instances of a class: every column holds None or a value.
LabelValues(cls, col) ==
    IF col = "id" THEN {"1", "2"}
    ELSE IF ColumnType(cls, col) = "Integer" THEN {None, "0", "1"}
    ELSE {None, "", "A"}

LabelRows(cls) ==
    LET cols == Columns(cls)
        names == {cols[i] : i \in 1..Len(cols)}
    IN  {r \in [names -> {None, "", "A", "0", "1", "2"}] :
            \A c \in names : r[c] \in LabelValues(cls, c)}

\* One option of a choice list, or one notice, showing the label of `row`:
\* format_func of the selectboxes and the f-strings of the error notices.
\* Nothing between the call and the return can raise.
RenderLabel(api, cls, row) ==
    /\ page' = {[api |-> api, cls |-> cls, row |-> row, raised |-> "none",
                 label |-> IF api = "mixin" THEN _st_repr(cls, row)
                           ELSE _obj_repr(cls, row)]}
    /\ UNCHANGED <<connection, store, held, last, running>>

\* ------------------------------------------------ keys of forms and buttons
\* Elements rendered one after the other within one run of the script.
MaxElements == 2

\* Arguments are given by the text str() makes of them, which is what
\* _get_unique_hash digests; md5 is taken to be free of collisions.
Md5(text) == "md5(" \o text \o ")"

_get_unique_hash(kwargsText) == Md5("{" \o kwargsText \o "}")

KeyTypes == {"Item", "OneToMany"}
KeyIds == {"1", "2"}
DefaultsTexts == {"", "'count': None"}
ExceptColumnsTexts == {"[]", "['count']"}
FilterByTexts == {"None", "{'name': 'A'}"}
Labels == {"Delete", "Done"}
ValuesTexts == {"'count': 0", "'name': 'B'"}

CreateFormKey(cls, defaults) == "create_" \o cls \o "_" \o _get_unique_hash(defaults)

UpdateFormKey(cls, id, except_columns) ==
    "update_" \o cls \o "_" \o id \o "_" \o
        _get_unique_hash("'except_columns': " \o except_columns)

DeleteSelectFormKey(cls, filter_by) == "delete_" \o cls

EditButtonKey(cls, id, label, values) ==
    "edit_" \o cls \o "_" \o id \o "_" \o
        _get_unique_hash("'label': '" \o label \o "', " \o values)

DeleteButtonKey(cls, id, label) == "delete_" \o cls \o "_" \o id

\* An element of the page: what was rendered, for which type and instance,
\* with which arguments, and the key it was given.
Element(kind, cls, id, args, key) ==
    [kind |-> kind, cls |-> cls, id |-> id, args |-> args, key |-> key]

\* Streamlit refuses a second element with a key the run has used already.
RenderElement(op, e) ==
    /\ running.pc = "idle"
    /\ Cardinality(page) < MaxElements
    /\ e \notin page
    /\ page' = page \cup {e}
    /\ last' = Outcome(op, IF \E x \in page : x.key = e.key
                           THEN "DuplicateWidgetID" ELSE "none", {})
    /\ UNCHANGED <<connection, store, held, running>>

KeyedCreateForm(cls, defaults) ==
    RenderElement("st_create_form",
                  Element("create_form", cls, None, defaults, CreateFormKey(cls, defaults)))

KeyedUpdateForm(cls, id, except_columns) ==
    RenderElement("st_update_form",
                  Element("update_form", cls, id, except_columns,
                          UpdateFormKey(cls, id, except_columns)))

\* The delete form of the select form, rendered once an entry is selected.
KeyedDeleteSelectForm(cls, filter_by) ==
    RenderElement("st_delete_select_form",
                  Element("delete_select_form", cls, None, filter_by,
                          DeleteSelectFormKey(cls, filter_by)))

KeyedEditButton(cls, id, label, values) ==
    RenderElement("st_edit_button",
                  Element("edit_button", cls, id, "'label': '" \o label \o "', " \o values,
                          EditButtonKey(cls, id, label, values)))

KeyedDeleteButton(cls, id, label) ==
    RenderElement("st_delete_button",
                  Element("delete_button", cls, id, label, DeleteButtonKey(cls, id, label)))

\* ------------------------------------------------ the scope of a session
\* Every function of the mixin that talks to the store does so inside
\*     with conn.session as session:                      (reads)
\*     with conn.session as session, session.begin():     (writes)
\* and conn.session builds a new Session at each access.  The functions of
\* BaseStreamlitSqlAlchemyView take theirs from get_session(), which returns
\* Session(cls.engine), and use it with no with statement (reads) or inside
\* `with session.begin():` only (writes).  `running` follows one such call
\* statement by statement: pc is the statement it is about to execute, open
\* the sessions that are not closed, txn whether the session of the call has
\* a transaction begun, raised the exception in flight, sessions the number
\* of sessions built so far.
MixinSessionOps ==
    {"st_list_all", "_st_get_input_function", "_st_create", "_st_update",
     "_st_session_update", "_st_session_delete"}

ViewSessionOps ==
    {"get_all", "_get_input_function", "_session_add", "_session_delete", "_session_update"}

SessionOps == MixinSessionOps \cup ViewSessionOps

\* The functions whose with statement enters the session itself.
Scoped(op) == op \in MixinSessionOps

\* The functions that enter session.begin() and wrap their statement in
\* try / except / else.
Transactional(op) ==
    op \notin {"st_list_all", "_st_get_input_function", "get_all", "_get_input_function"}

\* The exceptions the except clause of the function catches: IntegrityError
\* in the mixin, Exception in the view.
Caught(op, fault) == IF Scoped(op) THEN fault = "IntegrityError" ELSE fault # "none"

\* What the statement of the function can raise: the listing of the mixin
\* builds its order_by expression there, query.update() executes the UPDATE,
\* session.delete() refuses a transient instance, session.add() only
\* registers the instance.
BodyFaults(op) ==
    IF op = "st_list_all" THEN {"none", "TypeError", "OperationalError"}
    ELSE IF op \in {"_st_get_input_function", "get_all", "_get_input_function"}
    THEN {"none", "OperationalError"}
    ELSE IF op \in {"_st_create", "_session_add"} THEN {"none"}
    ELSE IF op \in {"_st_session_delete", "_session_delete"} THEN {"none", "InvalidRequestError"}
    ELSE {"none", "IntegrityError", "StatementError"}

\* What the commit at the exit of session.begin() can raise: it flushes the
\* INSERT or DELETE that the body only registered.
CommitFaults(op) ==
    IF op \in {"_st_create", "_st_session_delete", "_session_add", "_session_delete"}
    THEN {"none", "IntegrityError", "OperationalError"}
    ELSE {"none", "OperationalError"}

\* The function is called: the mixin looks up the connection, and the session
\* is built (and entered, where a with statement names it).
SessionEnter(cls, op) ==
    /\ running.pc = "idle"
    /\ running.sessions < MaxSessions
    /\ running' =
          IF Scoped(op) /\ NoConnection(cls)
          THEN [running EXCEPT !.op = op, !.raised = "AttributeError", !.log = {}]
          ELSE [op |-> op, pc |-> IF Transactional(op) THEN "begin" ELSE "body",
                open |-> running.open \cup {running.sessions + 1}, txn |-> FALSE,
                raised |-> "none", log |-> {}, sessions |-> running.sessions + 1]
    /\ UNCHANGED <<connection, store, held, last, page>>

\* session.begin().__enter__()
SessionBegin ==
    /\ running.pc = "begin"
    /\ running' = [running EXCEPT !.pc = "body", !.txn = TRUE]
    /\ UNCHANGED <<connection, store, held, last, page>>

\* The statement of the function, with what it raises.  A query on a session
\* with no transaction begins one; of the reads, only the view's outlive the
\* statement.
SessionBody(fault) ==
    /\ running.pc = "body"
    /\ fault \in BodyFaults(running.op)
    /\ running' =
          IF ~Transactional(running.op)
          THEN [running EXCEPT !.pc = IF Scoped(running.op) THEN "close" ELSE "return",
                               !.txn = ~Scoped(running.op),
                               !.raised = fault]
          ELSE IF fault = "none"
          THEN [running EXCEPT !.pc = "commit", !.log = {"info"}]
          ELSE IF Caught(running.op, fault)
          THEN [running EXCEPT !.pc = "commit", !.log = {"error"}]
          ELSE [running EXCEPT !.pc = "commit", !.raised = fault]
    /\ UNCHANGED <<connection, store, held, last, page>>

\* session.begin().__exit__(): rollback when an exception is in flight, else
\* the commit, which can raise.
SessionEndBegin(fault) ==
    /\ running.pc = "commit"
    /\ fault \in CommitFaults(running.op)
    /\ running' =
          [running EXCEPT !.pc = IF Scoped(running.op) THEN "close" ELSE "return",
                          !.txn = FALSE,
                          !.raised = IF running.raised # "none" THEN running.raised ELSE fault]
    /\ UNCHANGED <<connection, store, held, last, page>>

\* Session.__exit__(): close(), whatever is in flight.
SessionExit ==
    /\ running.pc = "close"
    /\ running' = [running EXCEPT !.pc = "return", !.open = running.open \ {running.sessions}]
    /\ UNCHANGED <<connection, store, held, last, page>>

\* The function returns, or the exception leaves it.
SessionReturn ==
    /\ running.pc = "return"
    /\ running' = [running EXCEPT !.pc = "idle"]
    /\ UNCHANGED <<connection, store, held, last, page>>

\* The garbage collector finalises a session that no function uses any more
\* and that was never closed, at a moment of its choosing.
SessionCollected ==
    /\ running.pc = "idle"
    /\ \E n \in running.open :
          running' = [running EXCEPT !.open = running.open \ {n},
                                    !.txn = running.txn /\ n # running.sessions]
    /\ UNCHANGED <<connection, store, held, last, page>>

\* The script ends; the next rerun starts, with the sessions that the previous
\* one left open.
Rerun ==
    /\ running.pc = "idle"
    /\ running.op # "none" \/ page # EmptyPage
    /\ running' = [running EXCEPT !.op = "none", !.raised = "none", !.log = {}]
    /\ page' = EmptyPage
    /\ UNCHANGED <<connection, store, held, last>>

\* ------------------------------------------------ specifications
\* The whole life of the process, from before st_initialize, with plain inputs.
InitClasses == {Mixin, "Item"}

Next ==
    \/ \E cls \in InitClasses : \E conn \in Handles : st_initialize(cls, conn)
    \/ Invocations(Plain)
    \/ Selections(Plain)
    \/ Submissions(Plain)

Spec == Init /\ [][Next]_vars

\* The state the `database` fixture of conftest.py leaves: the mixin itself
\* initialised once; example.py repeats that call at every rerun.
CrudInit ==
    /\ connection = [k \in Classes |-> IF k = Mixin THEN "c1" ELSE Unset]
    /\ store = [cls \in RecordTypes |-> {}]
    /\ held = NoInstance
    /\ last = Outcome("st_initialize", "none", {})
    /\ running = NoCall
    /\ page = EmptyPage

\* Item alone, with rich values, defaults, filters and edits.
CrudNext ==
    \/ st_initialize(Mixin, "c1")
    \/ Invocations(Rich)
    \/ Selections(Rich)
    \/ Submissions(Rich)

CrudSpec == CrudInit /\ [][CrudNext]_vars

\* Item and OneToMany, users picking related records.
RelatedNext ==
    \/ st_initialize(Mixin, "c1")
    \/ Invocations(Related)
    \/ Selections(Related)
    \/ Submissions(Related)

RelatedSpec == CrudInit /\ [][RelatedNext]_vars

\* Choice lists over target rows inserted in every order.
OrderNext ==
    \/ st_initialize(Mixin, "c1")
    \/ Invocations(Ordered)
    \/ Selections(Ordered)
    \/ Submissions(Ordered)

OrderSpec == CrudInit /\ [][OrderNext]_vars

\* A record type with a foreign key that is not nullable.
StrictNext ==
    \/ st_initialize(Mixin, "c1")
    \/ Invocations(Strictly)
    \/ Selections(Strictly)
    \/ Submissions(Strictly)

StrictSpec == CrudInit /\ [][StrictNext]_vars

\* Listings of a type with and a type without __st_order_by__.
ListNext ==
    \/ st_initialize(Mixin, "c1")
    \/ Invocations(Listed)
    \/ Selections(Listed)
    \/ Submissions(Listed)

ListSpec == CrudInit /\ [][ListNext]_vars

\* Item and OneToMany on a page that also renders st_crud_tabs.
TabsNext ==
    \/ st_initialize(Mixin, "c1")
    \/ Invocations(Related)
    \/ Selections(Related)
    \/ \E cls \in Related.types : \E d \in DefaultsOf(cls, Related) :
          \E f \in FiltersOf(cls, Related) : \E pick \in {None} \cup Ids(cls) :
              st_crud_tabs(cls, d, f, pick)
    \/ Submissions(Related)

TabsSpec == CrudInit /\ [][TabsNext]_vars

\* Item alone, with edit buttons whose values name the identity.
IdentityNext ==
    \/ st_initialize(Mixin, "c1")
    \/ Invocations(Identified)
    \/ Selections(Identified)
    \/ Submissions(Identified)

IdentitySpec == CrudInit /\ [][IdentityNext]_vars


\* The calls that open a session, statement by statement, from before
\* st_initialize.
SessionNext ==
    \/ \E cls \in InitClasses : \E conn \in Handles : st_initialize(cls, conn)
    \/ \E cls \in {"Item", "OneToMany"} : \E op \in SessionOps : SessionEnter(cls, op)
    \/ SessionBegin
    \/ \E fault \in BodyFaults(running.op) : SessionBody(fault)
    \/ \E fault \in CommitFaults(running.op) : SessionEndBegin(fault)
    \/ SessionExit
    \/ SessionReturn
    \/ SessionCollected
    \/ Rerun

SessionSpec == Init /\ [][SessionNext]_vars

\* The widgets of AdvancedObject, one at a time, at every clock.
WidgetNext ==
    \/ \E meta \in InputMetas : \E i \in 1..Len(AdvancedColumns) :
          \E now \in Clocks(AdvancedColumns[i]) :
              RenderCreateWidget(meta, AdvancedColumns[i], now)
    \/ \E meta \in InputMetas : \E i \in 1..Len(AdvancedColumns) :
          \E value \in ValuesOfType(AdvancedColumnType(AdvancedColumns[i])) :
              \E now \in Clocks(AdvancedColumns[i]) :
                  RenderUpdateWidget(meta, AdvancedColumns[i], value, now)
    \/ Rerun

WidgetSpec == CrudInit /\ [][WidgetNext]_vars

\* Labels of records of every shape of class, through the mixin and the view.
LabelNext ==
    \/ \E api \in {"mixin", "view"} : \E cls \in LabelTypes : \E row \in LabelRows(cls) :
          RenderLabel(api, cls, row)
    \/ Rerun

LabelSpec == CrudInit /\ [][LabelNext]_vars

\* Create forms of every record type over stores that are empty or hold Items.
FormNext ==
    \/ \E cls \in Formed.types : \E d \in DefaultsOf(cls, Formed) : RenderCreateForm(cls, d)
    \/ \E d \in DefaultsOf("Item", Formed) :
          \E input \in WidgetInputs("Item", CreateWidgetColumns("Item", d), Formed) :
              StCreateFormSubmit("Item", d, input)
    \/ Rerun

FormSpec == CrudInit /\ [][FormNext]_vars

\* A page of select forms over Items that are created, updated and deleted.
SelectNext ==
    \/ \E d \in DefaultsOf("Item", Rich) :
          \E input \in WidgetInputs("Item", CreateWidgetColumns("Item", d), Rich) :
              StCreateFormSubmit("Item", d, input)
    \/ \E f \in FiltersOf("Item", Rich) : \E e \in ExceptColumnsOf("Item", Rich) :
          \E pick \in {None} \cup Ids("Item") :
              RenderSelectForm("st_update_select_form", "Item", f, e, pick)
    \/ \E f \in FiltersOf("Item", Rich) : \E pick \in {None} \cup Ids("Item") :
          RenderSelectForm("st_delete_select_form", "Item", f, {}, pick)
    \/ \E e \in ExceptColumnsOf(held.cls, Rich) :
          \E edits \in Edits(held.cls, UpdateWidgetColumns(held.cls, e), Rich) :
              SubmitShownUpdateForm(e, edits)
    \/ SubmitShownDeleteForm
    \/ Rerun

SelectSpec == CrudInit /\ [][SelectNext]_vars

\* Pages that render several forms and buttons in one run.
KeyNext ==
    \/ \E cls \in KeyTypes : \E d \in DefaultsTexts : KeyedCreateForm(cls, d)
    \/ \E cls \in KeyTypes : \E id \in KeyIds : \E e \in ExceptColumnsTexts :
          KeyedUpdateForm(cls, id, e)
    \/ \E cls \in KeyTypes : \E f \in FilterByTexts : KeyedDeleteSelectForm(cls, f)
    \/ \E cls \in KeyTypes : \E id \in KeyIds : \E l \in Labels : \E v \in ValuesTexts :
          KeyedEditButton(cls, id, l, v)
    \/ \E cls \in KeyTypes : \E id \in KeyIds : \E l \in Labels :
          KeyedDeleteButton(cls, id, l)
    \/ Rerun

KeySpec == CrudInit /\ [][KeyNext]_vars

\* ------------------------------------------------ properties
\* The operations of the public st_ surface, as `last.op` names their renders.
StOperations ==
    {"st_list_all", "st_create_form", "st_update_select_form", "st_delete_select_form",
     "st_edit_button", "st_delete_button", "st_update_form", "st_pretty_class",
     "st_get_connection"}

Uninitialized == \A k \in Classes : connection[k] = Unset

\* C1: when the store rejects a create with a uniqueness conflict (here: the
\* primary key given to the create form is already stored), _st_create returns
\* without raising, reports an error and leaves the rows as they were.
C1_ConflictIsReportedNotRaised ==
    \A d \in DefaultsOf("Item", Rich) :
        \A input \in WidgetInputs("Item", CreateWidgetColumns("Item", d), Rich) :
            LET kwargs == CoerceCreate(CreateKwargs("Item", d, input))
                done == _st_create("Item", kwargs)
            IN  ("id" \in DOMAIN kwargs /\ kwargs["id"].v \in RowIds(store["Item"]))
                    => /\ done.raised = "none"
                       /\ "error" \in done.log
                       /\ done.rows = store["Item"]

\* C2: an st_ operation invoked while no class has a connection handle fails.
C2_FailsBeforeInitialize ==
    (Uninitialized /\ last.op \in StOperations) => last.raised # "none"

\* C3: once a handle is set, a later st_initialize logs a warning and leaves
\* every handle as it was.
C3_HandleSetOnce ==
    [][(last'.op = "st_initialize" /\ ~Uninitialized)
          => ("warning" \in last'.log /\ connection' = connection)]_vars

\* C4: once st_initialize has run on any class, st_get_connection of every
\* record type returns the handle that call passed.
C4_HandleSharedByAllRecordTypes ==
    \A k \in Classes : connection[k] # Unset =>
        \A cls \in RecordTypes :
            st_get_connection(cls) = [raised |-> "none", value |-> connection[k]]

\* C5: the update form of a stored record pre-fills every non-identity field
\* with the stored value, and submitting it untouched leaves the rows as they are.
C5_UpdateFormRoundTrip ==
    \A cls \in Rich.types : \A r \in store[cls] :
        LET self == Load(cls, r)
            kwargs == UpdateKwargs(self, {}, EmptyDict)
        IN  /\ \A col \in ColumnSet(cls) \ {"id"} :
                  /\ col \in DOMAIN Prefill(self, {})
                  /\ Prefill(self, {})[col].v = r[col]
            /\ ~CoerceUpdateRaises(kwargs)
            /\ _st_update(cls, CoerceUpdate(kwargs)).rows = store[cls]

\* C6: submitting the update form of a persisted instance completes without
\* raising, whatever the record type.
C6_UpdateFormSubmitCompletes ==
    (last.op = "st_update_form.submit" /\ held.persisted) => last.raised = "none"

\* C7: a click on an edit button changes, in the stored row of its instance,
\* only the fields named in values, and changes no other row.
C7_EditAppliesExactlyValues ==
    [][(last'.op = "st_edit_button.click" /\ held.persisted)
          => \E v \in EditValuesOf(held.cls, Rich) :
                \A r \in store[held.cls] : \E q \in store'[held.cls] :
                    /\ q.id = r.id
                    /\ \A col \in ColumnSet(held.cls) :
                          (r.id # held.row.id \/ col \notin DOMAIN v) => q[col] = r[col]]_vars

\* C8: submitting the create form adds exactly one row, to one record type.
C8_CreateSubmitAddsOneRow ==
    [][last'.op = "st_create_form.submit"
          => \E cls \in RecordTypes :
                /\ \E r \in store'[cls] :
                      r.id \notin RowIds(store[cls]) /\ store'[cls] = store[cls] \cup {r}
                /\ \A o \in RecordTypes \ {cls} : store'[o] = store[o]]_vars

\* C9: after the delete of the record selected in st_delete_select_form, its
\* identity is in no listing and in no foreign-key choice list; and an identity
\* that is not stored stays out of the store through every step that is not the
\* submission of a create form, so through every later render.
C9_DeletedRecordStaysAbsent ==
    [][/\ (last'.op = "st_delete_select_form.submit" /\ last'.raised = "none")
            => /\ \A f \in FiltersOf(held.cls, Related) :
                     held.row.id \notin
                         RowIds(SeqSet(Listing(store'[held.cls], held.cls, f)))
               /\ \A cls \in RecordTypes : \A col \in ColumnSet(cls) :
                     ForeignKeyTarget(cls, col) = held.cls
                         => held.row.id \notin RowIds(ChoicesIn(store', cls, col))
       /\ last'.op # "st_create_form.submit"
            => \A cls \in RecordTypes : RowIds(store'[cls]) \subseteq RowIds(store[cls])]_vars

\* A record was deleted through the delete form while other records of both
\* types remain stored.
C9_Witness ==
    /\ last.op = "st_delete_select_form.submit"
    /\ last.raised = "none"
    /\ held.cls = "Item"
    /\ held.row.id \notin RowIds(store["Item"])
    /\ store["Item"] # {}
    /\ store["OneToMany"] # {}

\* The sequence s is in the order of the values of col (NULL first, as in
\* ORDER BY), ties in any order.
InOrder(s, col) ==
    \A i \in 1..Len(s) : \A j \in i..Len(s) : Rank(s[i][col]) <= Rank(s[j][col])

\* C11: for every foreign-key field, the widget is built without an
\* exception and its choice list holds exactly the stored instances of the
\* target type, in the order of the target's sort key.
C11_ChoiceListInSortOrder ==
    \A cls \in Ordered.types : \A col \in ColumnSet(cls) :
        ForeignKeyTarget(cls, col) # None
            => /\ InputFunctionError(cls, col) = "none"
               /\ SeqSet(SortedChoices(store, cls, col)) = store[ForeignKeyTarget(cls, col)]
               /\ InOrder(SortedChoices(store, cls, col),
                          SortColumn(ForeignKeyTarget(cls, col)))

\* C12: st_list_all of every record type returns, without an exception,
\* exactly the stored instances that match the filter, in the order of the
\* sort key of the type; the select forms list the same.
C12_ListingFilteredInSortOrder ==
    /\ last.op \in {"st_list_all", "st_update_select_form", "st_delete_select_form"}
           => last.raised = "none"
    /\ \A cls \in Listed.types : \A f \in FiltersOf(cls, Listed) :
           ListAllError(cls) = "none"
               => /\ SeqSet(ListAll(cls, f)) =
                        {r \in store[cls] : \A k \in DOMAIN f : r[k] = f[k]}
                  /\ InOrder(ListAll(cls, f), SortColumn(cls))

\* C13: a create-form submission with no selection in the widget of a
\* foreign key that is not nullable does not end in the integrity error of the
\* store leaving the call (no other integrity error can meet a create here:
\* no identity is given), and no stored row has a null in such a column.
C13_UnselectedRequiredReference ==
    /\ last.op = "st_create_form.submit" => last.raised # "IntegrityError"
    /\ \A cls \in RecordTypes : \A r \in store[cls] : \A col \in ColumnSet(cls) :
           NotNull(cls, col) => r[col] # None

\* C14: a create form whose defaults name a field that the record type does
\* not have logs its warning, renders, and its submission completes without
\* raising.
C14_UnknownDefaultsOnlyWarn ==
    (last.op \in {"st_create_form", "st_create_form.submit"} /\ "warning" \in last.log)
        => last.raised = "none"

\* C15: a delete that the store rejects with an integrity violation is
\* caught: the operation reports an error and returns without raising, and
\* the record is still stored.
C15_RejectedDeleteIsReported ==
    last.op \in {"st_delete_button.click", "st_delete_select_form.submit"}
        => last.raised # "IntegrityError"

\* C16: a create, update or delete that ends in an exception other than an
\* integrity violation has emitted no success notice.
C16_NoSuccessNoticeBeforeFailure ==
    (/\ last.op \in {"st_create_form.submit", "st_update_form.submit", "st_edit_button.click",
                      "st_delete_button.click", "st_delete_select_form.submit"}
     /\ last.raised \notin {"none", "IntegrityError"})
        => "info" \notin last.log

\* C17: of two create submissions that the store serialises one after the
\* other, the second, when it conflicts with the first, does not end in a
\* raised integrity error, and no identity is stored twice.
C17_LoserOfConflictIsReported ==
    [][(last.op = "st_create_form.submit" /\ last'.op = "st_create_form.submit")
          => /\ last'.raised # "IntegrityError"
             /\ \A cls \in RecordTypes : \A r, q \in store'[cls] : r.id = q.id => r = q]_vars

\* C18: update submissions are not coordinated.  Whatever the store holds when
\* the submission of an update form commits, the row of the form's instance
\* is afterwards equal to the draft of that submission in every column other
\* than the identity, the columns the user left as rendered included, and no
\* other row is changed.
C18_LastCommittedDraftWins ==
    [][(last'.op = "st_update_form.submit" /\ last'.raised = "none" /\ "info" \in last'.log)
       => \A e \in ExceptColumnsOf(held.cls, Rich) :
          \A edits \in Edits(held.cls, UpdateWidgetColumns(held.cls, e), Rich) :
            StUpdateFormSubmit(e, edits)
                => /\ \A r \in store'[held.cls] :
                         r.id = held.row["id"]
                             => \A col \in ColumnSet(held.cls) \ {"id"} :
                                    r[col] = UpdateKwargs(held, e, edits)[col].v
                   /\ \A r \in store'[held.cls] : r.id # held.row["id"] => r \in store[held.cls]
                   /\ RowIds(store'[held.cls]) = RowIds(store[held.cls])]_vars

\* A submission of the update form of a stored instance has committed, and the
\* stored row carries its edit: it differs from the instance as it was loaded.
C18_Witness ==
    /\ last.op = "st_update_form.submit" /\ last.raised = "none" /\ "info" \in last.log
    /\ held.persisted
    /\ \E r \in store[held.cls] : r.id = held.row["id"] /\ r # held.row

\* C19: an update submission, an edit click (its values may name the id) or a
\* delete bound to an instance X loaded from the store leaves every row other than X's as it was,
\* creates no identity, and no identity is stored twice.
C19_IdentityAndIsolation ==
    [][(/\ last'.op \in {"st_update_form.submit", "st_edit_button.click",
                         "st_delete_button.click", "st_delete_select_form.submit"}
        /\ held.persisted)
          => /\ \A r \in store[held.cls] : r.id # held.row["id"] => r \in store'[held.cls]
             /\ RowIds(store'[held.cls]) \subseteq RowIds(store[held.cls])
             /\ \A r, q \in store'[held.cls] : r.id = q.id => r = q]_vars

\* C20: a render of st_create_form, st_update_select_form,
\* st_delete_select_form, st_crud_tabs, st_edit_button or st_delete_button in
\* which nothing is submitted or clicked leaves the store as it was.
C20_RendersLeaveStoreUnchanged ==
    [][last'.op \in {"st_create_form", "st_update_select_form", "st_delete_select_form",
                     "st_crud_tabs", "st_edit_button", "st_delete_button"}
          => store' = store]_vars

\* The tabs were rendered over a store with rows of both types and one of the
\* rows was picked in a selectbox.
C20_Witness ==
    /\ last.op = "st_crud_tabs" /\ last.raised = "none"
    /\ held.persisted /\ held.row \in store[held.cls]
    /\ store["Item"] # {} /\ store["OneToMany"] # {}

\* C21: a listing, foreign-key lookup, create, update or delete has at most
\* its own session open while it runs, and when it has returned, normally,
\* after a caught error or by a propagated exception, no session is open and
\* no transaction is begun; none is open when the rerun ends.
C21_SessionClosedOnReturn ==
    /\ running.pc = "idle" => (running.open = {} /\ ~running.txn)
    /\ running.open \subseteq {running.sessions}

\* C22: the widget function of a column is the entry of __st_input_meta__ for
\* its name when there is one, also for a foreign key; otherwise the
\* related-record selectbox for a foreign key; otherwise the function of its
\* semantic type, text_input being the default case.
C22_WidgetPrecedence ==
    \A w \in page :
        LET byType == [Integer |-> "number_input", Float |-> "float_input",
                       Boolean |-> "boolean_select", DateTime |-> "datetime_input",
                       Date |-> "date_input", Time |-> "time_input", Text |-> "text_area",
                       String |-> "text_input"]
        IN  IF w.meta.defined /\ w.column \in DOMAIN w.meta.dict
            THEN w.function = w.meta.dict[w.column]
            ELSE IF w.column = "super_item_id" THEN w.function = "selectbox"
            ELSE w.function = byType[AdvancedColumnType(w.column)]

\* The widget of the foreign key was built for a class whose __st_input_meta__
\* has an entry for it.
C22_Witness ==
    \E w \in page :
        /\ w.column = "super_item_id" /\ w.meta.defined /\ "super_item_id" \in DOMAIN w.meta.dict
        /\ w.function = "<lambda radio>"

\* C26: the datetime and time widgets, when a stored value is passed in,
\* present its time of day with the minutes and seconds unchanged; the date
\* part is always presented in full.
C26_StoredTimeKeepsMinutes ==
    \A w \in page :
        /\ (w.function = "datetime_input" /\ w.value # IsNone) => w.presented = w.value
        /\ (w.function = "time_input" /\ w.value # IsNone) => w.presented = w.value
        /\ (w.function = "date_input" /\ w.value # IsNone) => w.presented = w.value

Unpopulated(cls) ==
    /\ store[cls] = {}
    /\ \A col \in ColumnSet(cls) :
          ForeignKeyTarget(cls, col) # None => store[ForeignKeyTarget(cls, col)] = {}

NothingSelected == \E s \in page : s.kind = "selectbox" /\ s.selected = None

C25_NoSelectionNoSubmission ==
    [][NothingSelected =>
          /\ \A e \in page : e.kind = "selectbox"
          /\ last'.op \notin {"st_update_form.submit", "st_delete_select_form.submit"}]_vars

C25_Witness ==
    /\ \E s \in page : s.kind = "selectbox" /\ s.selected = None /\ Len(s.options) > 0
    /\ held = NoInstance

\* C27: after an update form rendered with except_columns is submitted, the
\* stored row of its instance has, in every column that had no widget (id, the
\* columns of except_columns, the foreign keys), the value the instance held
\* when the form was rendered.
C27_NoWidgetColumnsKeepInstanceValues ==
    [][\A e \in ExceptColumnsOf(held.cls, Related) :
          \A edits \in Edits(held.cls, UpdateWidgetColumns(held.cls, e), Related) :
              (held.persisted /\ StUpdateFormSubmit(e, edits)) =>
                  \A r \in store'[held.cls] :
                      r.id = held.row["id"] =>
                          \A col \in ColumnSet(held.cls) \ UpdateWidgetColumns(held.cls, e) :
                              r[col] = held.row[col]]_vars

\* C28: an update-form submission, an edit-button click or a delete applied to
\* a loaded instance whose row is no longer in the store leaves the store as
\* it was: no row is created and no other row is changed.
C28_AbsentRowLeavesStoreUnchanged ==
    [][(/\ held.persisted
        /\ held.row["id"] \notin RowIds(store[held.cls])
        /\ last'.op \in {"st_update_form.submit", "st_edit_button.click",
                         "st_delete_button.click", "st_delete_select_form.submit"})
          => store' = store]_vars

\* C29: within one run, two forms or buttons rendered for different
\* instances, or for the same type or instance with different defaults,
\* except_columns, filter_by, labels or edit values, have different keys.
C29_KeysPairwiseDistinct ==
    \A e, x \in page :
        (e.kind = x.kind /\ e.cls = x.cls /\ (e.id # x.id \/ e.args # x.args))
            => e.key # x.key

====
